---- MODULE Spec2Model ----
(***************************************************************************)
(* Model of storjrpcudp.protocol.RPCProtocol: an RPC engine over UDP.      *)
(* Two engines, A and B, run the same code.  A stranger X can put any      *)
(* datagram of a fixed catalogue on the wire.  Datagrams are byte          *)
(* sequences; the msgpack codec is modelled on the fragment it is used on. *)
(***************************************************************************)
EXTENDS Integers, Sequences, FiniteSets, TLC

VARIABLES
    calls,        \* every Deferred/DelayedCall pair func() created, in order
    outstanding,  \* self._outstanding of each engine: msgID -> index in calls
    net,          \* datagrams written to a transport and addressed to an engine
    pending,      \* handler Deferreds that have not fired yet
    last,         \* what the last operation did (observable outcome)
    cfg           \* what the environment may do (fixed at start): the caller's
                  \* argument pool, method names and number of calls, what
                  \* transport.write may do, how many handlers may be pending,
                  \* further datagrams of the stranger

vars == <<calls, outstanding, net, pending, last, cfg>>

----------------------------------------------------------------------------
(* Bounds of the model *)

MaxCalls == 2
NumIDs == 2
MaxAttempts == 2
MaxPending == 1

----------------------------------------------------------------------------
(* Program constants *)

REQUEST_BYTE == 2
RESPONSE_BYTE == 3
IDLen == 20
HeaderLen == 21
(* the size test written against the header length *)
HeaderAsMinimum == HeaderLen
MinDatagram == 22
MaxPayload == 8192
EAGAIN == 11
WSAENOBUFS == 10055
EMSGSIZE == 90

Engines == {"A", "B"}
Stranger == "X"
Addresses == Engines \cup {Stranger}
Peer(e) == IF e = "A" THEN "B" ELSE "A"
Callers == {"A"}

----------------------------------------------------------------------------
(* Values that travel: None, small integers, strings (byte sequences),     *)
(* lists.  Every value is a record [t, v] with v a sequence.               *)

NilV == [t |-> "nil", v |-> <<>>]
IntV(n) == [t |-> "int", v |-> <<n>>]
StrV(s) == [t |-> "str", v |-> s]
ListV(l) == [t |-> "list", v |-> l]

Run(n, b) == [i \in 1..n |-> b]

RECURSIVE Flatten(_)
Flatten(ss) == IF ss = <<>> THEN <<>> ELSE Head(ss) \o Flatten(Tail(ss))

(* umsgpack.packb on None, ints 0..127, str up to 65535 bytes, lists up to 15 *)
RECURSIVE packb(_)
packb(x) ==
    CASE x.t = "nil" -> <<192>>
      [] x.t = "int" -> <<x.v[1]>>
      [] x.t = "str" ->
            IF Len(x.v) <= 31 THEN <<160 + Len(x.v)>> \o x.v
            ELSE IF Len(x.v) <= 255 THEN <<217, Len(x.v)>> \o x.v
            ELSE <<218, Len(x.v) \div 256, Len(x.v) % 256>> \o x.v
      [] x.t = "list" ->
            <<144 + Len(x.v)>> \o Flatten([i \in 1..Len(x.v) |-> packb(x.v[i])])

Bad == [ok |-> FALSE, val |-> NilV, next |-> 0]

(* umsgpack.unpackb: decodes the first object at position p; bytes after   *)
(* it are not looked at.  ok = FALSE stands for the UnpackException raised *)
(* on truncated input or on the reserved code 0xc1.                        *)
RECURSIVE Parse(_, _), ParseItems(_, _, _)
Parse(b, p) ==
    IF p > Len(b) THEN Bad
    ELSE LET c == b[p] IN
         IF c <= 127 THEN [ok |-> TRUE, val |-> IntV(c), next |-> p + 1]
         ELSE IF c >= 144 /\ c <= 159 THEN ParseItems(b, p + 1, c - 144)
         ELSE IF c >= 160 /\ c <= 191 THEN
              IF p + (c - 160) > Len(b) THEN Bad
              ELSE [ok |-> TRUE, val |-> StrV(SubSeq(b, p + 1, p + (c - 160))),
                    next |-> p + 1 + (c - 160)]
         ELSE IF c = 192 THEN [ok |-> TRUE, val |-> NilV, next |-> p + 1]
         ELSE IF c = 217 THEN
              IF p + 1 > Len(b) \/ p + 1 + b[p + 1] > Len(b) THEN Bad
              ELSE [ok |-> TRUE, val |-> StrV(SubSeq(b, p + 2, p + 1 + b[p + 1])),
                    next |-> p + 2 + b[p + 1]]
         ELSE IF c = 218 THEN
              IF p + 2 > Len(b) THEN Bad
              ELSE LET n == b[p + 1] * 256 + b[p + 2] IN
                   IF p + 2 + n > Len(b) THEN Bad
                   ELSE [ok |-> TRUE, val |-> StrV(SubSeq(b, p + 3, p + 2 + n)),
                         next |-> p + 3 + n]
         ELSE Bad
ParseItems(b, p, n) ==
    IF n = 0 THEN [ok |-> TRUE, val |-> ListV(<<>>), next |-> p]
    ELSE LET h == Parse(b, p) IN
         IF ~h.ok THEN Bad
         ELSE LET r == ParseItems(b, h.next, n - 1) IN
              IF ~r.ok THEN Bad
              ELSE [ok |-> TRUE, val |-> ListV(<<h.val>> \o r.val.v), next |-> r.next]

unpackb(b) == Parse(b, 1)

----------------------------------------------------------------------------
(* Method names (ASCII) and the rpc_ attributes of the engines' class      *)

echo == <<101, 99, 104, 111>>
slow == <<115, 108, 111, 119>>
boom == <<98, 111, 111, 109>>
data == <<100, 97, 116, 97>>
nope == <<110, 111, 112, 101>>
x == <<120>>

(* getattr(self, "rpc_%s" % funcname, None): rpc_echo returns its          *)
(* arguments, rpc_slow returns a Deferred, rpc_boom raises, rpc_data is an *)
(* attribute that is not callable; any other name has no attribute.        *)
Registry(funcname) ==
    IF funcname.t # "str" THEN "none"
    ELSE IF funcname.v = echo THEN "sync"
    ELSE IF funcname.v = slow THEN "async"
    ELSE IF funcname.v = boom THEN "raise"
    ELSE IF funcname.v = data THEN "notcallable"
    ELSE "none"

(* f(address, args): the star forgotten *)
StarForgotten(args) == [ok |-> TRUE, seq |-> <<args>>]

(* f(address, *args): what *args makes of the second element.  A list      *)
(* gives its elements, a str its characters; None and ints are not         *)
(* iterable (TypeError).                                                   *)
Star(args) ==
    IF args.t = "list" THEN [ok |-> TRUE, seq |-> args.v]
    ELSE IF args.t = "str"
         THEN [ok |-> TRUE, seq |-> [i \in 1..Len(args.v) |-> StrV(<<args.v[i]>>)]]
    ELSE [ok |-> FALSE, seq |-> <<>>]

(* what the handler produces for (address, *args): rpc_echo returns the    *)
(* arguments, rpc_slow fires its Deferred with their number                *)
HandlerResult(f, address, argseq) ==
    IF f = "sync" THEN ListV(argseq) ELSE IntV(Len(argseq))

----------------------------------------------------------------------------
(* Correlation IDs: NumIDs of the 20-byte digests sha1 can produce *)

MsgID(k) == Run(IDLen, k)
MsgIDs == {MsgID(k) : k \in 1..NumIDs}

Frame(tag, msgID, payload) == <<tag>> \o msgID \o payload

----------------------------------------------------------------------------
(* send_all: errnos[i] is what the i-th transport.write does (0: it        *)
(* succeeds); the loop makes at most Len(errnos) attempts before           *)
(* time.time() passes `future`.                                            *)

Errnos == {0, EAGAIN, WSAENOBUFS, EMSGSIZE}
Scripts == UNION {[1..w -> Errnos] : w \in 0..MaxAttempts}
(* one script for each way send_all can end, and one with a retry *)
FewScripts == {<<0>>, <<EAGAIN>>, <<EMSGSIZE>>, <<WSAENOBUFS, 0>>}

(* only would-block counts as transient *)
TransientOnlyEagain == {EAGAIN}

(* e.errno in (11, 10055) *)
Transient == {EAGAIN, WSAENOBUFS}

RECURSIVE SendLoop(_, _)
SendLoop(errnos, i) ==
    IF i > Len(errnos) THEN [sent |-> FALSE, raised |-> FALSE, tries |-> i - 1]
    ELSE IF errnos[i] = 0 THEN [sent |-> TRUE, raised |-> FALSE, tries |-> i]
    ELSE IF errnos[i] \in Transient THEN SendLoop(errnos, i + 1)
    ELSE [sent |-> FALSE, raised |-> TRUE, tries |-> i]

send_all(errnos) == SendLoop(errnos, 1)

(* the datagrams a send_all leaves on the wire *)
Written(r, from, bytes, address) ==
    IF r.sent THEN <<[src |-> from, dst |-> address, data |-> bytes]>> ELSE <<>>

Deliverable(ws) == {ws[i] : i \in {j \in 1..Len(ws) : ws[j].dst \in Engines}}

----------------------------------------------------------------------------
(* State helpers *)

NoTable == [i \in {} |-> 0]
(* an entry is added only under a key the table does not hold *)
PutKeepsFirst(tbl, k, v) ==
    [i \in DOMAIN tbl \cup {k} |-> IF i \in DOMAIN tbl THEN tbl[i] ELSE v]
Put(tbl, k, v) == [i \in DOMAIN tbl \cup {k} |-> IF i = k THEN v ELSE tbl[i]]
Del(tbl, k) == [i \in DOMAIN tbl \ {k} |-> tbl[i]]
Bump(n) == IF n < 2 THEN n + 1 ELSE n

(* the timer is scheduled only when the request went out *)
NewCallTimerIfSent(e, address, name, args, msgID, sent) ==
    [eng |-> e, dst |-> address, name |-> name, args |-> args, id |-> msgID,
     d |-> <<>>, timer |-> IF sent THEN "armed" ELSE "idle", nResp |-> 0,
     nTimeout |-> 0, sent |-> sent, keyed |-> FALSE, by |-> "nobody"]

(* d = defer.Deferred(); timeout = reactor.callLater(...) *)
NewCall(e, address, name, args, msgID, sent) ==
    [eng |-> e, dst |-> address, name |-> name, args |-> args, id |-> msgID,
     d |-> <<>>, timer |-> "armed", nResp |-> 0, nTimeout |-> 0,
     sent |-> sent, keyed |-> FALSE, by |-> "nobody"]

(* d.callback((ok, val)) on a Deferred that has not been called; `keyed`   *)
(* records whether the ID was a key of the table while the callbacks ran,  *)
(* `by` the sender of the response that did it ("timer" for _timeout)      *)
Fire(c, ok, val, keyed, by) ==
    [c EXCEPT !.d = <<[ok |-> ok, data |-> val]>>,
              !.by = by,
              !.nResp = IF ok THEN Bump(@) ELSE @,
              !.nTimeout = IF ok THEN @ ELSE Bump(@),
              !.keyed = keyed]

(* `sends` holds the send_all call the operation made, if any: what each   *)
(* transport.write did and how the loop ended; `failed` says that the      *)
(* handler's Deferred ended in _onError                                    *)
Did(op, e, bytes, address, raised, writes, invoked) ==
    [op |-> op, eng |-> e, data |-> bytes, from |-> address, raised |-> raised,
     writes |-> writes, invoked |-> invoked, sends |-> <<>>, failed |-> FALSE]
Sending(l, errnos) ==
    [l EXCEPT !.sends = <<[errnos |-> errnos, r |-> send_all(errnos)]>>]

(* the operation ends without touching the engine *)
Ignore(e, dg, address, raised) ==
    /\ last' = Did("recv", e, dg, address, raised, <<>>, FALSE)
    /\ UNCHANGED <<calls, outstanding, net, pending, cfg>>

SmallArgs == {<<StrV(x)>>}
FitLen == MaxPayload - 10
BigArgs == {<<StrV(Run(FitLen - 1, 97))>>, <<StrV(Run(FitLen, 97))>>,
            <<StrV(Run(FitLen + 1, 97))>>}
CallNames == {echo, slow, boom, nope}

Init ==
    /\ calls = <<>>
    /\ outstanding = [e \in Engines |-> NoTable]
    /\ net = {}
    /\ pending = <<>>
    /\ last = Did("init", "A", <<>>, "A", "none", <<>>, FALSE)
    /\ cfg = [pool |-> SmallArgs, quota |-> MaxCalls, scripts |-> FewScripts,
              names |-> CallNames, pend |-> MaxPending, extra |-> {}]

InitSize ==
    /\ calls = <<>>
    /\ outstanding = [e \in Engines |-> NoTable]
    /\ net = {}
    /\ pending = <<>>
    /\ last = Did("init", "A", <<>>, "A", "none", <<>>, FALSE)
    /\ cfg = [pool |-> BigArgs, quota |-> 1, scripts |-> FewScripts,
              names |-> CallNames, pend |-> MaxPending, extra |-> {}]

(* one call, and transport.write free to do anything on each attempt that  *)
(* fits in the window                                                      *)
InitSend ==
    /\ calls = <<>>
    /\ outstanding = [e \in Engines |-> NoTable]
    /\ net = {}
    /\ pending = <<>>
    /\ last = Did("init", "A", <<>>, "A", "none", <<>>, FALSE)
    /\ cfg = [pool |-> SmallArgs, quota |-> 1, scripts |-> Scripts,
              names |-> {echo, slow}, pend |-> MaxPending, extra |-> {}]

(* calls to the handler that answers later, one more pending handler, and  *)
(* a stranger that calls it on the calling engine too                      *)
SlowRequests ==
    {Frame(REQUEST_BYTE, m, packb(ListV(<<StrV(slow), ListV(<<StrV(x)>>)>>))) :
        m \in MsgIDs}
InitAsync ==
    /\ calls = <<>>
    /\ outstanding = [e \in Engines |-> NoTable]
    /\ net = {}
    /\ pending = <<>>
    /\ last = Did("init", "A", <<>>, "A", "none", <<>>, FALSE)
    /\ cfg = [pool |-> SmallArgs, quota |-> MaxCalls, scripts |-> {<<0>>, <<EAGAIN>>},
              names |-> {slow}, pend |-> MaxPending + 1, extra |-> SlowRequests]

----------------------------------------------------------------------------
(* func with the size guard written >= *)

funcGuardOffByOne(e, address, name, args, msgID, errnos) ==
    LET payload == packb(ListV(<<StrV(name), ListV(args)>>))
        txdata == Frame(REQUEST_BYTE, msgID, payload)
        r == send_all(errnos)
        ws == Written(r, e, txdata, address)
    IN  /\ Len(calls) < cfg.quota
        /\ IF Len(payload) >= MaxPayload
           THEN /\ last' = Did("call", e, payload, address, "MalformedMessage", <<>>, FALSE)
                /\ UNCHANGED <<calls, outstanding, net, pending, cfg>>
           ELSE IF r.raised
           THEN /\ last' = Sending(Did("call", e, payload, address, "socket.error", ws,
                                        FALSE), errnos)
                /\ UNCHANGED <<calls, outstanding, net, pending, cfg>>
           ELSE /\ calls' = Append(calls, NewCall(e, address, name, args, msgID, r.sent))
                /\ outstanding' = [outstanding EXCEPT
                                      ![e] = Put(@, msgID, Len(calls) + 1)]
                /\ net' = net \cup Deliverable(ws)
                /\ last' = Sending(Did("call", e, payload, address, "none", ws, FALSE),
                                errnos)
                /\ UNCHANGED <<pending, cfg>>

(* __getattr__(name) -> func(address, *args) *)

(* func that creates the Deferred, the timer and the entry before it sends *)
funcRegistersFirst(e, address, name, args, msgID, errnos) ==
    LET payload == packb(ListV(<<StrV(name), ListV(args)>>))
        txdata == Frame(REQUEST_BYTE, msgID, payload)
        r == send_all(errnos)
        ws == Written(r, e, txdata, address)
    IN  /\ Len(calls) < cfg.quota
        /\ IF Len(payload) > MaxPayload
           THEN /\ last' = Did("call", e, payload, address, "MalformedMessage", <<>>, FALSE)
                /\ UNCHANGED <<calls, outstanding, net, pending, cfg>>
           ELSE IF r.raised
           THEN /\ calls' = Append(calls, NewCall(e, address, name, args, msgID, r.sent))
                /\ outstanding' = [outstanding EXCEPT
                                      ![e] = Put(@, msgID, Len(calls) + 1)]
                /\ last' = Sending(Did("call", e, payload, address, "socket.error", ws,
                                        FALSE), errnos)
                /\ UNCHANGED <<net, pending, cfg>>
           ELSE /\ calls' = Append(calls, NewCall(e, address, name, args, msgID, r.sent))
                /\ outstanding' = [outstanding EXCEPT
                                      ![e] = Put(@, msgID, Len(calls) + 1)]
                /\ net' = net \cup Deliverable(ws)
                /\ last' = Sending(Did("call", e, payload, address, "none", ws, FALSE),
                                errnos)
                /\ UNCHANGED <<pending, cfg>>

func(e, address, name, args, msgID, errnos) ==
    LET payload == packb(ListV(<<StrV(name), ListV(args)>>))
        txdata == Frame(REQUEST_BYTE, msgID, payload)
        r == send_all(errnos)
        ws == Written(r, e, txdata, address)
    IN  /\ Len(calls) < cfg.quota
        /\ IF Len(payload) > MaxPayload
           THEN /\ last' = Did("call", e, payload, address, "MalformedMessage", <<>>, FALSE)
                /\ UNCHANGED <<calls, outstanding, net, pending, cfg>>
           ELSE IF r.raised
           THEN /\ last' = Sending(Did("call", e, payload, address, "socket.error", ws,
                                        FALSE), errnos)
                /\ UNCHANGED <<calls, outstanding, net, pending, cfg>>
           ELSE /\ calls' = Append(calls, NewCall(e, address, name, args, msgID, r.sent))
                /\ outstanding' = [outstanding EXCEPT
                                      ![e] = Put(@, msgID, Len(calls) + 1)]
                /\ net' = net \cup Deliverable(ws)
                /\ last' = Sending(Did("call", e, payload, address, "none", ws, FALSE),
                                errnos)
                /\ UNCHANGED <<pending, cfg>>

Call ==
    \E e \in Callers, name \in cfg.names, args \in cfg.pool, msgID \in MsgIDs,
       errnos \in cfg.scripts :
        func(e, Peer(e), name, args, msgID, errnos)

----------------------------------------------------------------------------
(* _timeout with line 99 (the del) left out *)
timeoutKeepsEntry(c) ==
    LET e == calls[c].eng
        msgID == calls[c].id
        fired == [calls EXCEPT ![c].timer = "fired"]
    IN  /\ calls[c].timer = "armed"
        /\ IF msgID \notin DOMAIN outstanding[e]
           THEN /\ calls' = fired
                /\ last' = Did("timeout", e, msgID, e, "KeyError", <<>>, FALSE)
                /\ UNCHANGED <<outstanding, net, pending, cfg>>
           ELSE LET t == outstanding[e][msgID] IN
                IF calls[t].d # <<>>
                THEN /\ calls' = fired
                     /\ last' = Did("timeout", e, msgID, e, "AlreadyCalledError",
                                    <<>>, FALSE)
                     /\ UNCHANGED <<outstanding, net, pending, cfg>>
                ELSE /\ calls' = [fired EXCEPT ![t] = Fire(@, FALSE, NilV, TRUE, "timer")]
                     /\ last' = Did("timeout", e, msgID, e, "none", <<>>, FALSE)
                     /\ UNCHANGED <<outstanding, net, pending, cfg>>

(* _timeout(msgID), run by the reactor when the DelayedCall of call c      *)
(* fires: the subscript raises KeyError when the ID is no key of the       *)
(* table, d.callback() raises when the table's Deferred was called.        *)

timeout(c) ==
    LET e == calls[c].eng
        msgID == calls[c].id
        fired == [calls EXCEPT ![c].timer = "fired"]
    IN  /\ calls[c].timer = "armed"
        /\ IF msgID \notin DOMAIN outstanding[e]
           THEN /\ calls' = fired
                /\ last' = Did("timeout", e, msgID, e, "KeyError", <<>>, FALSE)
                /\ UNCHANGED <<outstanding, net, pending, cfg>>
           ELSE LET t == outstanding[e][msgID] IN
                IF calls[t].d # <<>>
                THEN /\ calls' = fired
                     /\ last' = Did("timeout", e, msgID, e, "AlreadyCalledError",
                                    <<>>, FALSE)
                     /\ UNCHANGED <<outstanding, net, pending, cfg>>
                ELSE \* the callbacks run on the table as it is: `del` comes after
                     LET atCallback == outstanding[e] IN
                     /\ calls' = [fired EXCEPT
                                     ![t] = Fire(@, FALSE, NilV,
                                                 msgID \in DOMAIN atCallback, "timer")]
                     /\ outstanding' = [outstanding EXCEPT ![e] = Del(atCallback, msgID)]
                     /\ last' = Did("timeout", e, msgID, e, "none", <<>>, FALSE)
                     /\ UNCHANGED <<net, pending, cfg>>

Timeout == \E c \in 1..Len(calls) : timeout(c)

----------------------------------------------------------------------------
(* _sendResponse that answers the engine's peer instead of the sender *)
sendResponseToPeer(e, response, msgID, address, errnos) ==
    Written(send_all(errnos), e,
            Frame(RESPONSE_BYTE, msgID, packb(response)), Peer(e))

(* _sendResponse(response, msgID, address): what it writes.  It runs as a  *)
(* callback of the handler's Deferred, so an error send_all raises goes to *)
(* _onError and not to whoever drives the engine.                          *)

sendResponse(e, response, msgID, address, errnos) ==
    Written(send_all(errnos), e,
            Frame(RESPONSE_BYTE, msgID, packb(response)), address)

(* _acceptResponse with line 70 (the del) left out *)
acceptResponseKeepsEntry(e, msgID, payload, address, dg) ==
    IF msgID \notin DOMAIN outstanding[e]
    THEN Ignore(e, dg, address, "none")
    ELSE LET t == outstanding[e][msgID] IN
         IF calls[t].timer # "armed"
         THEN Ignore(e, dg, address, "AlreadyCalled")
         ELSE IF calls[t].d # <<>>
         THEN /\ calls' = [calls EXCEPT ![t].timer = "cancelled"]
              /\ last' = Did("recv", e, dg, address, "AlreadyCalledError", <<>>, FALSE)
              /\ UNCHANGED <<outstanding, net, pending, cfg>>
         ELSE /\ calls' = [calls EXCEPT
                             ![t] = Fire([@ EXCEPT !.timer = "cancelled"],
                                         TRUE, payload, TRUE, address)]
              /\ last' = Did("recv", e, dg, address, "none", <<>>, FALSE)
              /\ UNCHANGED <<outstanding, net, pending, cfg>>

(* _acceptResponse that reads the table without the membership test *)
acceptResponseNoLookup(e, msgID, payload, address, dg) ==
    IF msgID \notin DOMAIN outstanding[e]
    THEN Ignore(e, dg, address, "KeyError")
    ELSE LET t == outstanding[e][msgID] IN
         IF calls[t].timer # "armed"
         THEN Ignore(e, dg, address, "AlreadyCalled")
         ELSE IF calls[t].d # <<>>
         THEN /\ calls' = [calls EXCEPT ![t].timer = "cancelled"]
              /\ last' = Did("recv", e, dg, address, "AlreadyCalledError", <<>>, FALSE)
              /\ UNCHANGED <<outstanding, net, pending, cfg>>
         ELSE \* d.callback runs on the table as it is: `del` comes after it
              LET atCallback == outstanding[e] IN
              /\ calls' = [calls EXCEPT
                             ![t] = Fire([@ EXCEPT !.timer = "cancelled"],
                                         TRUE, payload,
                                         msgID \in DOMAIN atCallback, address)]
              /\ outstanding' = [outstanding EXCEPT ![e] = Del(atCallback, msgID)]
              /\ last' = Did("recv", e, dg, address, "none", <<>>, FALSE)
              /\ UNCHANGED <<net, pending, cfg>>

(* _acceptResponse that takes a response only from the address called *)
acceptResponseChecksSender(e, msgID, payload, address, dg) ==
    IF msgID \notin DOMAIN outstanding[e]
    THEN Ignore(e, dg, address, "none")
    ELSE LET t == outstanding[e][msgID] IN
         IF address # calls[t].dst
         THEN Ignore(e, dg, address, "none")
         ELSE IF calls[t].timer # "armed"
         THEN Ignore(e, dg, address, "AlreadyCalled")
         ELSE IF calls[t].d # <<>>
         THEN /\ calls' = [calls EXCEPT ![t].timer = "cancelled"]
              /\ last' = Did("recv", e, dg, address, "AlreadyCalledError", <<>>, FALSE)
              /\ UNCHANGED <<outstanding, net, pending, cfg>>
         ELSE \* d.callback runs on the table as it is: `del` comes after it
              LET atCallback == outstanding[e] IN
              /\ calls' = [calls EXCEPT
                             ![t] = Fire([@ EXCEPT !.timer = "cancelled"],
                                         TRUE, payload,
                                         msgID \in DOMAIN atCallback, address)]
              /\ outstanding' = [outstanding EXCEPT ![e] = Del(atCallback, msgID)]
              /\ last' = Did("recv", e, dg, address, "none", <<>>, FALSE)
              /\ UNCHANGED <<net, pending, cfg>>

(* _acceptResponse(msgID, data, address): timeout.cancel() raises on a     *)
(* DelayedCall that has fired or was cancelled, d.callback() on a Deferred *)
(* that was called; in both cases the lines after it do not run.           *)
acceptResponse(e, msgID, payload, address, dg) ==
    IF msgID \notin DOMAIN outstanding[e]
    THEN Ignore(e, dg, address, "none")
    ELSE LET t == outstanding[e][msgID] IN
         IF calls[t].timer # "armed"
         THEN Ignore(e, dg, address, "AlreadyCalled")
         ELSE IF calls[t].d # <<>>
         THEN /\ calls' = [calls EXCEPT ![t].timer = "cancelled"]
              /\ last' = Did("recv", e, dg, address, "AlreadyCalledError", <<>>, FALSE)
              /\ UNCHANGED <<outstanding, net, pending, cfg>>
         ELSE \* d.callback runs on the table as it is: `del` comes after it
              LET atCallback == outstanding[e] IN
              /\ calls' = [calls EXCEPT
                             ![t] = Fire([@ EXCEPT !.timer = "cancelled"],
                                         TRUE, payload,
                                         msgID \in DOMAIN atCallback, address)]
              /\ outstanding' = [outstanding EXCEPT ![e] = Del(atCallback, msgID)]
              /\ last' = Did("recv", e, dg, address, "none", <<>>, FALSE)
              /\ UNCHANGED <<net, pending, cfg>>

(* _acceptRequest that logs a malformed request and returns *)
acceptRequestDropsMalformed(e, msgID, payload, address, dg) ==
    IF payload.t # "list" \/ Len(payload.v) # 2
    THEN Ignore(e, dg, address, "none")
    ELSE LET funcname == payload.v[1]
             args == payload.v[2]
             f == Registry(funcname)
             star == Star(args)
         IN  IF f \in {"none", "notcallable"}
             THEN Ignore(e, dg, address, "none")
             ELSE IF ~star.ok
             THEN Ignore(e, dg, address, "TypeError")
             ELSE IF f = "sync"
             THEN \E errnos \in cfg.scripts :
                    LET ws == sendResponse(e, HandlerResult(f, address, star.seq),
                                           msgID, address, errnos)
                    IN  /\ net' = net \cup Deliverable(ws)
                        /\ last' = Sending(Did("recv", e, dg, address, "none", ws, TRUE),
                                        errnos)
                        /\ UNCHANGED <<calls, outstanding, pending, cfg>>
             ELSE IF f = "async"
             THEN /\ Len(pending) < cfg.pend
                  /\ pending' = Append(pending,
                                  [eng |-> e, msgID |-> msgID, address |-> address,
                                   result |-> HandlerResult(f, address, star.seq),
                                   req |-> dg])
                  /\ last' = Did("recv", e, dg, address, "none", <<>>, TRUE)
                  /\ UNCHANGED <<calls, outstanding, net, cfg>>
             ELSE /\ last' = [Did("recv", e, dg, address, "none", <<>>, TRUE)
                                  EXCEPT !.failed = TRUE]
                  /\ UNCHANGED <<calls, outstanding, net, pending, cfg>>

(* _acceptRequest that answers a request it has no handler for *)
acceptRequestAnswersUnknown(e, msgID, payload, address, dg) ==
    IF payload.t # "list" \/ Len(payload.v) # 2
    THEN Ignore(e, dg, address, "MalformedMessage")
    ELSE LET funcname == payload.v[1]
             args == payload.v[2]
             f == Registry(funcname)
             star == Star(args)
         IN  IF f \in {"none", "notcallable"}
             THEN \E errnos \in cfg.scripts :
                    LET ws == sendResponse(e, NilV, msgID, address, errnos)
                    IN  /\ net' = net \cup Deliverable(ws)
                        /\ last' = Sending(Did("recv", e, dg, address, "none", ws, FALSE),
                                        errnos)
                        /\ UNCHANGED <<calls, outstanding, pending, cfg>>
             ELSE IF ~star.ok
             THEN Ignore(e, dg, address, "TypeError")
             ELSE IF f = "sync"
             THEN \E errnos \in cfg.scripts :
                    LET ws == sendResponse(e, HandlerResult(f, address, star.seq),
                                           msgID, address, errnos)
                    IN  /\ net' = net \cup Deliverable(ws)
                        /\ last' = Sending(Did("recv", e, dg, address, "none", ws, TRUE),
                                        errnos)
                        /\ UNCHANGED <<calls, outstanding, pending, cfg>>
             ELSE IF f = "async"
             THEN /\ Len(pending) < cfg.pend
                  /\ pending' = Append(pending,
                                  [eng |-> e, msgID |-> msgID, address |-> address,
                                   result |-> HandlerResult(f, address, star.seq),
                                   req |-> dg])
                  /\ last' = Did("recv", e, dg, address, "none", <<>>, TRUE)
                  /\ UNCHANGED <<calls, outstanding, net, cfg>>
             ELSE /\ last' = [Did("recv", e, dg, address, "none", <<>>, TRUE)
                                  EXCEPT !.failed = TRUE]
                  /\ UNCHANGED <<calls, outstanding, net, pending, cfg>>

(* _acceptRequest that calls the handler itself, not through maybeDeferred *)
acceptRequestHandlerRaises(e, msgID, payload, address, dg) ==
    IF payload.t # "list" \/ Len(payload.v) # 2
    THEN Ignore(e, dg, address, "MalformedMessage")
    ELSE LET funcname == payload.v[1]
             args == payload.v[2]
             f == Registry(funcname)
             star == Star(args)
         IN  IF f \in {"none", "notcallable"}
             THEN Ignore(e, dg, address, "none")
             ELSE IF ~star.ok
             THEN Ignore(e, dg, address, "TypeError")
             ELSE IF f = "sync"
             THEN \E errnos \in cfg.scripts :
                    LET ws == sendResponse(e, HandlerResult(f, address, star.seq),
                                           msgID, address, errnos)
                    IN  /\ net' = net \cup Deliverable(ws)
                        /\ last' = Sending(Did("recv", e, dg, address, "none", ws, TRUE),
                                        errnos)
                        /\ UNCHANGED <<calls, outstanding, pending, cfg>>
             ELSE IF f = "async"
             THEN /\ Len(pending) < cfg.pend
                  /\ pending' = Append(pending,
                                  [eng |-> e, msgID |-> msgID, address |-> address,
                                   result |-> HandlerResult(f, address, star.seq),
                                   req |-> dg])
                  /\ last' = Did("recv", e, dg, address, "none", <<>>, TRUE)
                  /\ UNCHANGED <<calls, outstanding, net, cfg>>
             ELSE /\ last' = [Did("recv", e, dg, address, "Exception", <<>>, TRUE)
                                  EXCEPT !.failed = TRUE]
                  /\ UNCHANGED <<calls, outstanding, net, pending, cfg>>

(* _acceptRequest(msgID, data, address) *)
acceptRequest(e, msgID, payload, address, dg) ==
    IF payload.t # "list" \/ Len(payload.v) # 2
    THEN Ignore(e, dg, address, "MalformedMessage")
    ELSE LET funcname == payload.v[1]
             args == payload.v[2]
             f == Registry(funcname)
             star == Star(args)
         IN  IF f \in {"none", "notcallable"}
             THEN Ignore(e, dg, address, "none")
             ELSE IF ~star.ok
             THEN Ignore(e, dg, address, "TypeError")
             ELSE IF f = "sync"
             THEN \E errnos \in cfg.scripts :
                    LET ws == sendResponse(e, HandlerResult(f, address, star.seq),
                                           msgID, address, errnos)
                    IN  /\ net' = net \cup Deliverable(ws)
                        /\ last' = Sending(Did("recv", e, dg, address, "none", ws, TRUE),
                                        errnos)
                        /\ UNCHANGED <<calls, outstanding, pending, cfg>>
             ELSE IF f = "async"
             THEN /\ Len(pending) < cfg.pend
                  /\ pending' = Append(pending,
                                  [eng |-> e, msgID |-> msgID, address |-> address,
                                   result |-> HandlerResult(f, address, star.seq),
                                   req |-> dg])
                  /\ last' = Did("recv", e, dg, address, "none", <<>>, TRUE)
                  /\ UNCHANGED <<calls, outstanding, net, cfg>>
             ELSE /\ last' = [Did("recv", e, dg, address, "none", <<>>, TRUE)
                                  EXCEPT !.failed = TRUE]
                  /\ UNCHANGED <<calls, outstanding, net, pending, cfg>>

(* datagramReceived(datagram, address) *)
datagramReceived(e, dg, address) ==
    IF Len(dg) < MinDatagram
    THEN Ignore(e, dg, address, "none")
    ELSE LET msgID == SubSeq(dg, 2, HeaderLen)
             u == unpackb(SubSeq(dg, HeaderLen + 1, Len(dg)))
         IN  IF ~u.ok
             THEN Ignore(e, dg, address, "UnpackException")
             ELSE IF dg[1] = REQUEST_BYTE
             THEN acceptRequest(e, msgID, u.val, address, dg)
             ELSE IF dg[1] = RESPONSE_BYTE
             THEN acceptResponse(e, msgID, u.val, address, dg)
             ELSE Ignore(e, dg, address, "none")

(* What the stranger puts on the wire *)
UNKNOWN_BYTE == 4
RESERVED_CODE == 193
OneElement == packb(ListV(<<StrV(x)>>))
Undecodable == <<RESERVED_CODE>>
StrayRequests ==
    {OneElement, Undecodable, packb(IntV(5)),
     packb(ListV(<<StrV(data), ListV(<<>>)>>)),
     packb(ListV(<<StrV(boom), ListV(<<StrV(x)>>)>>)),
     packb(ListV(<<StrV(echo), IntV(5)>>)),
     packb(ListV(<<StrV(echo), StrV(<<120, 120>>)>>))}
(* requests go to the engine that serves, the rest to the engine that calls *)
Catalogue(e) ==
    IF e \in Callers
    THEN {Run(10, 0), <<RESPONSE_BYTE>> \o MsgID(1)}
         \cup {Frame(UNKNOWN_BYTE, MsgID(1), p) : p \in {OneElement, Undecodable}}
         \cup {Frame(RESPONSE_BYTE, m, p) : m \in MsgIDs,
                                           p \in {OneElement, Undecodable}}
    ELSE {Frame(REQUEST_BYTE, MsgID(1), p) : p \in StrayRequests}

Arrivals(e) ==
    {<<m.data, m.src>> : m \in {n \in net : n.dst = e}}
    \cup {<<dg, Stranger>> : dg \in Catalogue(e)}
    \cup {<<dg, Stranger>> : dg \in IF e \in Callers THEN cfg.extra ELSE {}}

DatagramReceived ==
    \E e \in Engines : \E a \in Arrivals(e) : datagramReceived(e, a[1], a[2])

(* a completion that answers the request that has waited longest *)
handlerDoneAnswersOldest(i, ok, errnos) ==
    LET h == pending[i]
        ws == IF ok THEN sendResponse(h.eng, h.result, pending[1].msgID,
                                    pending[1].address, errnos)
              ELSE <<>>
    IN  /\ pending' = [j \in 1..(Len(pending) - 1) |->
                          IF j < i THEN pending[j] ELSE pending[j + 1]]
        /\ net' = net \cup Deliverable(ws)
        /\ last' = LET l == Did("done", h.eng, h.req, h.address, "none", ws, FALSE)
                   IN  IF ok THEN Sending(l, errnos) ELSE [l EXCEPT !.failed = TRUE]
        /\ UNCHANGED <<calls, outstanding, cfg>>

(* the Deferred of the i-th pending handler fires: with its result         *)
(* (_sendResponse) or with a failure (_onError)                            *)
handlerDone(i, ok, errnos) ==
    LET h == pending[i]
        ws == IF ok THEN sendResponse(h.eng, h.result, h.msgID, h.address, errnos)
              ELSE <<>>
    IN  /\ pending' = [j \in 1..(Len(pending) - 1) |->
                          IF j < i THEN pending[j] ELSE pending[j + 1]]
        /\ net' = net \cup Deliverable(ws)
        /\ last' = LET l == Did("done", h.eng, h.req, h.address, "none", ws, FALSE)
                   IN  IF ok THEN Sending(l, errnos) ELSE [l EXCEPT !.failed = TRUE]
        /\ UNCHANGED <<calls, outstanding, cfg>>

HandlerDone ==
    \E i \in 1..Len(pending) :
        \/ \E errnos \in cfg.scripts : handlerDone(i, TRUE, errnos)
        \/ handlerDone(i, FALSE, <<>>)

Next == Call \/ DatagramReceived \/ Timeout \/ HandlerDone

Spec == Init /\ [][Next]_vars

SizeSpec == InitSize /\ [][Next]_vars

SendSpec == InitSend /\ [][Next]_vars

AsyncSpec == InitAsync /\ [][Next]_vars

FairSpec == Init /\ [][Next]_vars /\ WF_vars(Timeout)

----------------------------------------------------------------------------
(* Reading a frame *)

IsFrame(dg) == Len(dg) >= MinDatagram
TagOf(dg) == dg[1]
IdOf(dg) == SubSeq(dg, 2, HeaderLen)
Decoded(dg) == unpackb(SubSeq(dg, HeaderLen + 1, Len(dg)))
TagsOf(ws) == {ws[i].data[1] : i \in 1..Len(ws)}

Issued == 1..Len(calls)
Resolved(c) == c \in Issued /\ calls[c].d # <<>>
(* all calls an engine has made carry different correlation IDs *)
DistinctIDs ==
    \A c1, c2 \in Issued :
        (c1 # c2 /\ calls[c1].eng = calls[c2].eng) => calls[c1].id # calls[c2].id
Failure == <<[ok |-> FALSE, data |-> NilV]>>
EngineUnchanged == UNCHANGED <<calls, outstanding, net, pending>>
Silent(l) == l.raised = "none" /\ l.writes = <<>> /\ ~l.invoked

----------------------------------------------------------------------------
(* C1: whatever responses (duplicated, late, forged) and timer firings     *)
(* arrive in whatever order, a call is resolved at most once: no           *)
(* operation ever tries to fire a Deferred that was fired or to cancel a   *)
(* timer that is no longer armed, and the timer of a call that a response  *)
(* matched never fires.                                                    *)
C1_ResolvedAtMostOnce ==
    /\ last.raised \notin {"AlreadyCalledError", "AlreadyCalled"}
    /\ \A c \in Issued :
        /\ calls[c].nResp + calls[c].nTimeout <= 1
        /\ Resolved(c) <=> calls[c].nResp + calls[c].nTimeout = 1
        /\ calls[c].nResp = 1 => calls[c].timer = "cancelled"

(* a response arrives for the ID of a call its timer has resolved *)
C1_Witness ==
    /\ last.op = "recv" /\ IsFrame(last.data) /\ TagOf(last.data) = RESPONSE_BYTE
    /\ Decoded(last.data).ok
    /\ \E c \in Issued :
        /\ calls[c].id = IdOf(last.data) /\ calls[c].eng = last.eng
        /\ calls[c].nTimeout = 1 /\ calls[c].timer = "fired"

(* C2: with every armed timer eventually firing and all IDs distinct,      *)
(* every call that returned a handle is eventually resolved, also when its *)
(* request never left; it holds (True, payload) if a response resolved it  *)
(* and (False, None) if the timer did.                                     *)
C2_EventuallyResolved ==
    /\ [](\A c \in Issued :
            Resolved(c) =>
                IF calls[c].by = "timer" THEN calls[c].d = Failure
                ELSE calls[c].d[1].ok /\ calls[c].timer = "cancelled")
    /\ \A c \in 1..MaxCalls :
            [](c \in Issued => <>(~DistinctIDs \/ Resolved(c)))

(* a call whose request was never written has been resolved by its timer *)
C2_Witness ==
    \E c \in Issued :
        /\ ~calls[c].sent /\ calls[c].d = Failure /\ DistinctIDs
        /\ Len(calls) = MaxCalls

(* C3: when the timer of the call the table holds fires, the call resolves *)
(* to (False, None) and its entry leaves the table; a response with that   *)
(* ID that comes later is dropped: no error, the handle keeps              *)
(* (False, None), the table is unchanged.                                  *)
C3_TimeoutThenStray ==
    [][/\ \A c \in Issued :
            (/\ calls[c].timer = "armed" /\ calls'[c].timer = "fired"
             /\ calls[c].id \in DOMAIN outstanding[calls[c].eng]
             /\ outstanding[calls[c].eng][calls[c].id] = c)
            => /\ calls'[c].d = Failure
               /\ calls[c].id \notin DOMAIN outstanding'[calls[c].eng]
               /\ last'.op = "timeout" /\ last'.raised = "none"
       /\ \A c \in Issued : calls[c].d = Failure => calls'[c].d = Failure
       /\ (/\ last'.op = "recv" /\ IsFrame(last'.data)
           /\ TagOf(last'.data) = RESPONSE_BYTE /\ Decoded(last'.data).ok
           /\ IdOf(last'.data) \notin DOMAIN outstanding[last'.eng])
          => EngineUnchanged /\ Silent(last')
      ]_vars

(* a response came for an ID whose call had timed out and left the table *)
C3_Witness ==
    /\ last.op = "recv" /\ IsFrame(last.data) /\ TagOf(last.data) = RESPONSE_BYTE
    /\ Decoded(last.data).ok /\ last.raised = "none"
    /\ IdOf(last.data) \notin DOMAIN outstanding[last.eng]
    /\ \E c \in Issued :
        /\ calls[c].id = IdOf(last.data) /\ calls[c].eng = last.eng
        /\ calls[c].d = Failure

(* C4: with distinct IDs, a call that a frame from the called engine       *)
(* resolves holds (True, r), r being what the handler of the called method *)
(* returns for (caller's address, args): args itself for the echo handler. *)
C4_RoundTrip ==
    \A c \in Issued :
        (DistinctIDs /\ Resolved(c) /\ calls[c].by = calls[c].dst) =>
            /\ Registry(StrV(calls[c].name)) \in {"sync", "async"}
            /\ calls[c].d = <<[ok |-> TRUE,
                               data |-> HandlerResult(Registry(StrV(calls[c].name)),
                                                      calls[c].eng, calls[c].args)]>>
            /\ calls[c].name = echo => calls[c].d[1].data = ListV(calls[c].args)

(* an echo call has been resolved by the called engine's response *)
C4_Witness ==
    \E c \in Issued :
        /\ calls[c].name = echo /\ calls[c].by = calls[c].dst /\ DistinctIDs
        /\ calls[c].d = <<[ok |-> TRUE, data |-> ListV(<<StrV(x)>>)]>>
        /\ Len(calls) = MaxCalls

(* C5: whatever an engine writes while it handles a received datagram or   *)
(* completes a handler is a response frame with the ID of the request      *)
(* frame being answered, addressed to that request's sender; a call writes *)
(* request frames only.                                                    *)
C5_ResponseEchoesRequest ==
    /\ last.op \in {"init", "timeout"} => last.writes = <<>>
    /\ last.op = "call" => TagsOf(last.writes) \subseteq {REQUEST_BYTE}
    /\ last.op \in {"recv", "done"} =>
        \A i \in 1..Len(last.writes) :
            /\ IsFrame(last.data) /\ TagOf(last.data) = REQUEST_BYTE
            /\ TagOf(last.writes[i].data) = RESPONSE_BYTE
            /\ IdOf(last.writes[i].data) = IdOf(last.data)
            /\ last.writes[i].dst = last.from
            /\ last.writes[i].src = last.eng
    /\ \A i \in 1..Len(pending) :
            /\ IsFrame(pending[i].req) /\ TagOf(pending[i].req) = REQUEST_BYTE
            /\ pending[i].msgID = IdOf(pending[i].req)

(* a handler that completed later has answered the request of a call *)
C5_Witness ==
    /\ last.op = "done" /\ Len(last.writes) = 1
    /\ last.writes[1].dst = "A" /\ last.eng = "B"

WellFormed(v) == v.t = "list" /\ Len(v.v) = 2
Unregistered(funcname) == Registry(funcname) \in {"none", "notcallable"}
Received(l) == l.op = "recv" /\ IsFrame(l.data)
ReceivedRequest(l) ==
    Received(l) /\ TagOf(l.data) = REQUEST_BYTE /\ Decoded(l.data).ok

(* C6: a well-formed request naming a method with no callable rpc_         *)
(* attribute changes nothing in the engine, writes nothing, raises         *)
(* nothing and invokes nothing; with distinct IDs the call that named it   *)
(* is resolved by nothing the called engine sends: unless a third party    *)
(* forges a response, it resolves by its timer, to (False, None).          *)
C6_UnknownMethodDropped ==
    /\ [][(/\ ReceivedRequest(last') /\ WellFormed(Decoded(last'.data).val)
           /\ Unregistered(Decoded(last'.data).val.v[1]))
          => EngineUnchanged /\ Silent(last')]_vars
    /\ [](\A c \in Issued :
            (/\ DistinctIDs /\ Unregistered(StrV(calls[c].name))
             /\ Resolved(c) /\ calls[c].by # Stranger)
            => calls[c].by = "timer" /\ calls[c].d = Failure)

(* the called engine has dropped the request of a call to `nope`, and the  *)
(* call has timed out                                                      *)
C6_Witness ==
    /\ ReceivedRequest(last) /\ last.from = "A" /\ last.eng = "B"
    /\ Decoded(last.data).val.v[1] = StrV(nope)
    /\ \E c \in Issued :
        /\ calls[c].name = nope /\ calls[c].id = IdOf(last.data)
        /\ calls[c].d = Failure /\ DistinctIDs

(* C7: a request frame whose payload decodes to anything but a list of two *)
(* elements makes datagramReceived raise MalformedMessage; no handler is   *)
(* invoked, nothing is written, calls, table and pending handlers are      *)
(* unchanged.                                                              *)
C7_MalformedRequestRaises ==
    [][(ReceivedRequest(last') /\ ~WellFormed(Decoded(last'.data).val))
       => /\ last'.raised = "MalformedMessage"
          /\ last'.writes = <<>> /\ ~last'.invoked
          /\ EngineUnchanged]_vars

(* the one-element request ["x"] has been rejected *)
C7_Witness ==
    /\ last.op = "recv" /\ last.raised = "MalformedMessage"
    /\ last.data = Frame(REQUEST_BYTE, MsgID(1), OneElement)

(* C8: a call whose encoded [name, args] is longer than 8192 bytes raises  *)
(* MalformedMessage with nothing written, no table entry and no timer; one *)
(* of 8192 bytes or less is not rejected by the guard.                     *)
C8_SizeGuard ==
    [][last'.op = "call" =>
        IF Len(last'.data) > MaxPayload
        THEN /\ last'.raised = "MalformedMessage" /\ last'.writes = <<>>
             /\ EngineUnchanged
        ELSE /\ last'.raised # "MalformedMessage"
             /\ last'.raised = "none" =>
                    /\ Len(calls') = Len(calls) + 1
                    /\ calls'[Len(calls')].timer = "armed"
                    /\ calls'[Len(calls')].id \in DOMAIN outstanding'[last'.eng]
      ]_vars

(* a payload of 8193 bytes has been rejected *)
C8_Witness ==
    /\ last.op = "call" /\ last.raised = "MalformedMessage"
    /\ Len(last.data) = MaxPayload + 1 /\ calls = <<>>

(* C9: a datagram shorter than 22 bytes is ignored: nothing raised,        *)
(* invoked or written, no call resolved, table and pending handlers        *)
(* unchanged, so what is received next is handled from the same state.     *)
C9_ShortDatagramIgnored ==
    [][(last'.op = "recv" /\ Len(last'.data) < 22)
       => EngineUnchanged /\ Silent(last')]_vars

(* a 21-byte response header with the ID of an outstanding call arrived *)
C9_Witness ==
    /\ last.op = "recv" /\ Len(last.data) = HeaderLen
    /\ TagOf(last.data) = RESPONSE_BYTE
    /\ IdOf(last.data) \in DOMAIN outstanding[last.eng]

(* C10: a datagram of at least 22 bytes whose tag is neither 0x02 nor 0x03 *)
(* is dropped silently whatever its payload: nothing raised, invoked or    *)
(* written, the engine unchanged.                                          *)
C10_UnknownTagSilent ==
    [][(Received(last') /\ TagOf(last'.data) \notin {REQUEST_BYTE, RESPONSE_BYTE})
       => EngineUnchanged /\ Silent(last')]_vars

C12_HandlerFailureSilent ==
    /\ [][(/\ ReceivedRequest(last') /\ WellFormed(Decoded(last'.data).val)
           /\ Registry(Decoded(last'.data).val.v[1]) = "raise"
           /\ Star(Decoded(last'.data).val.v[2]).ok)
          => /\ last'.invoked /\ last'.failed /\ last'.raised = "none"
             /\ last'.writes = <<>> /\ last'.sends = <<>>
             /\ EngineUnchanged]_vars
    /\ [][(last'.op = "done" /\ last'.failed)
          => /\ last'.raised = "none"
             /\ last'.writes = <<>> /\ last'.sends = <<>>
             /\ Len(pending') = Len(pending) - 1
             /\ UNCHANGED <<calls, outstanding, net>>]_vars
    /\ [](\A c \in Issued :
            (/\ DistinctIDs /\ Registry(StrV(calls[c].name)) = "raise"
             /\ Resolved(c) /\ calls[c].by # Stranger)
            => calls[c].by = "timer" /\ calls[c].d = Failure)

(* a call to `boom` has timed out after the called engine ran the handler, *)
(* and the Deferred of the handler of a call to `slow` has just failed     *)
C12_Witness ==
    /\ last.op = "done" /\ last.failed /\ last.from = "A" /\ DistinctIDs
    /\ \E c \in Issued :
        /\ calls[c].name = boom /\ calls[c].sent /\ calls[c].d = Failure
    /\ \E c \in Issued :
        /\ calls[c].name = slow /\ calls[c].id = IdOf(last.data)

Armed(e) == {calls[c].id : c \in {k \in Issued : calls[k].eng = e /\ calls[k].timer = "armed"}}
Unresolved(e) == {calls[c].id : c \in {k \in Issued : calls[k].eng = e /\ calls[k].d = <<>>}}

(* C13: as long as the calls of an engine carry distinct IDs, the keys of  *)
(* its table are the IDs whose timer is armed and the IDs whose handle is  *)
(* unresolved, and a timer that fires finds its ID in the table.           *)
C13_TableTimersHandles ==
    DistinctIDs =>
        /\ \A e \in Engines :
            /\ DOMAIN outstanding[e] = Armed(e)
            /\ DOMAIN outstanding[e] = Unresolved(e)
            /\ \A k \in DOMAIN outstanding[e] :
                    /\ outstanding[e][k] \in Issued
                    /\ calls[outstanding[e][k]].id = k
                    /\ calls[outstanding[e][k]].eng = e
        /\ last.op = "timeout" => last.raised = "none"

(* one call was answered, the timer of the other has fired *)
C13_Witness ==
    /\ DistinctIDs /\ Len(calls) = MaxCalls
    /\ last.op = "timeout" /\ last.raised = "none"
    /\ \E c \in Issued : calls[c].nResp = 1 /\ calls[c].by = calls[c].dst
    /\ outstanding["A"] = NoTable

(* C14: a matching response removes the entry before it resolves the       *)
(* handle: while the callbacks of a handle that a response resolved ran,   *)
(* the ID was no longer a key of the table.                                *)
C14_RemovedBeforeResolved ==
    \A c \in Issued : calls[c].nResp = 1 => ~calls[c].keyed

(* C15: a request whose payload is a list of two elements, the second not  *)
(* a list (an integer, a string), is rejected with MalformedMessage: no    *)
(* handler is invoked, nothing is written, the engine is unchanged.        *)
C15_ArgsMustBeSequence ==
    [][(/\ ReceivedRequest(last') /\ WellFormed(Decoded(last'.data).val)
        /\ Decoded(last'.data).val.v[2].t # "list")
       => /\ last'.raised = "MalformedMessage"
          /\ ~last'.invoked /\ last'.writes = <<>>
          /\ EngineUnchanged]_vars

(* C16: whatever transport.write does on each attempt that fits in the     *)
(* window, send_all ends in one of three ways: (a) it returns after the    *)
(* first write that succeeds, which is its last attempt and its only       *)
(* successful one; (b) it raises at the first error whose errno is neither *)
(* 11 nor 10055, its last attempt, with no successful write; (c) it        *)
(* returns with nothing written and nothing raised when every attempt the  *)
(* window allows (possibly none) failed with errno 11 or 10055. The        *)
(* caller puts one datagram on the wire in case (a) and none otherwise,    *)
(* and no operation raises socket.error unless its send_all did.           *)
C16_SendAllOutcomes ==
    \A n \in 1..Len(last.sends) :
        LET errnos == last.sends[n].errnos
            r == last.sends[n].r
            made == 1..r.tries
            good == {k \in made : errnos[k] = 0}
            fatal == {k \in made : errnos[k] \notin {0, 11, 10055}}
            decisive == {k \in 1..Len(errnos) : errnos[k] \notin {11, 10055}}
        IN  /\ r.tries <= Len(errnos)
            /\ ~(r.sent /\ r.raised)
            /\ r.sent => good = {r.tries} /\ fatal = {}
            /\ r.raised => fatal = {r.tries} /\ good = {}
            /\ (~r.sent /\ ~r.raised) =>
                    good = {} /\ fatal = {} /\ r.tries = Len(errnos)
            /\ decisive = {} => ~r.sent /\ ~r.raised
            /\ decisive # {} =>
                    LET first == CHOOSE k \in decisive : \A m \in decisive : k <= m
                    IN  /\ r.tries = first
                        /\ r.sent <=> errnos[first] = 0
                        /\ r.raised <=> errnos[first] # 0
            /\ Len(last.writes) = IF r.sent THEN 1 ELSE 0
            /\ last.raised = "socket.error" => r.raised

(* a send met errno 10055, then errno 11, and the window was over *)
C16_Witness ==
    /\ Len(last.sends) = 1
    /\ last.sends[1].errnos = <<WSAENOBUFS, EAGAIN>>
    /\ last.sends[1].r = [sent |-> FALSE, raised |-> FALSE, tries |-> 2]
    /\ last.writes = <<>> /\ last.raised = "none"

Without(q, i) == [j \in 1..(Len(q) - 1) |-> IF j < i THEN q[j] ELSE q[j + 1]]

(* C17: a handler whose result is pending is only an entry the engine      *)
(* keeps: calls, datagrams received and timers that fire meanwhile are     *)
(* processed as ever and leave the pending handlers as they are, at most   *)
(* adding the one just started, with the ID and sender of the request      *)
(* received. A completion takes one pending handler away, whichever it     *)
(* is; if the handler succeeded it calls send_all once and whatever that   *)
(* writes is the response with the ID, the result and the sender's address *)
(* of that handler's own request; if it failed nothing is sent.            *)
C17_AsyncHandlers ==
    [][/\ last'.op \in {"call", "timeout"} => pending' = pending
       /\ last'.op = "recv" =>
             \/ pending' = pending
             \/ /\ ReceivedRequest(last') /\ last'.invoked
                /\ Len(pending') = Len(pending) + 1
                /\ SubSeq(pending', 1, Len(pending)) = pending
                /\ pending'[Len(pending')].eng = last'.eng
                /\ pending'[Len(pending')].msgID = IdOf(last'.data)
                /\ pending'[Len(pending')].address = last'.from
                /\ pending'[Len(pending')].req = last'.data
       /\ last'.op = "done" =>
             \E i \in 1..Len(pending) :
                 LET h == pending[i]
                     own == [src |-> h.eng, dst |-> h.address,
                             data |-> Frame(RESPONSE_BYTE, IdOf(h.req),
                                            packb(h.result))]
                 IN  /\ pending' = Without(pending, i)
                     /\ last'.eng = h.eng /\ last'.raised = "none"
                     /\ IF last'.failed
                        THEN last'.sends = <<>> /\ last'.writes = <<>>
                        ELSE /\ Len(last'.sends) = 1
                             /\ last'.writes =
                                  IF last'.sends[1].r.sent THEN <<own>> ELSE <<>>
                     /\ net' = net \cup Deliverable(last'.writes)
                     /\ UNCHANGED <<calls, outstanding>>
      ]_vars

(* two handlers were pending at the calling engine, for requests with      *)
(* different IDs, and one of them has answered; a response has resolved a  *)
(* call of that engine                                                     *)
C17_Witness ==
    /\ last.op = "done" /\ last.eng = "A" /\ Len(last.writes) = 1
    /\ Len(pending) = 1 /\ pending[1].eng = "A"
    /\ pending[1].msgID # IdOf(last.data)
    /\ \E c \in Issued : calls[c].nResp = 1 /\ calls[c].by = calls[c].dst

(* the table of its engine points at call c *)
Held(c) ==
    /\ calls[c].id \in DOMAIN outstanding[calls[c].eng]
    /\ outstanding[calls[c].eng][calls[c].id] = c
(* call c is unresolved and the table no longer points at it *)
Displaced(c) == calls[c].d = <<>> /\ ~Held(c)

(* C18: a call issued under the ID of an outstanding call is accepted and  *)
(* takes over the table entry; the earlier call is left as it was, timer   *)
(* armed and handle unresolved, and from then on nothing resolves it or    *)
(* cancels its timer; when that timer fires it resolves the later call,    *)
(* which holds the entry, to (False, None), leaves the later call's own    *)
(* timer armed and removes the entry.                                      *)
C18_Collision ==
    [][/\ (/\ last'.op = "call" /\ Len(calls') = Len(calls) + 1
           /\ calls'[Len(calls')].id \in DOMAIN outstanding[last'.eng])
          => LET t == outstanding[last'.eng][calls'[Len(calls')].id] IN
             /\ last'.raised = "none"
             /\ outstanding'[last'.eng][calls'[Len(calls')].id] = Len(calls')
             /\ calls'[t] = calls[t]
             /\ calls[t].timer = "armed" /\ calls[t].d = <<>>
       /\ \A c \in Issued :
            Displaced(c) =>
                /\ calls'[c].d = <<>>
                /\ ~(/\ calls'[c].id \in DOMAIN outstanding'[calls'[c].eng]
                     /\ outstanding'[calls'[c].eng][calls'[c].id] = c)
                /\ calls'[c].timer \in {calls[c].timer, "fired"}
                /\ calls[c].timer # "cancelled"
       /\ \A c1, c2 \in Issued :
            (/\ Displaced(c1) /\ Held(c2) /\ calls[c1].eng = calls[c2].eng
             /\ calls[c1].id = calls[c2].id /\ calls[c2].d = <<>>
             /\ calls[c1].timer = "armed" /\ calls'[c1].timer = "fired")
            => /\ calls'[c2].d = Failure
               /\ calls'[c2].timer = calls[c2].timer
               /\ calls[c2].id \notin DOMAIN outstanding'[calls[c2].eng]
               /\ last'.raised = "none"
      ]_vars

(* the earlier call's timer has resolved the later call, the earlier call  *)
(* is unresolved, and the later call's timer has found the ID gone         *)
C18_Witness ==
    /\ last.op = "timeout" /\ last.raised = "KeyError"
    /\ \E c1, c2 \in Issued :
        /\ c1 < c2 /\ calls[c1].id = calls[c2].id /\ calls[c1].eng = calls[c2].eng
        /\ calls[c1].d = <<>> /\ calls[c1].timer = "fired"
        /\ calls[c2].d = Failure /\ calls[c2].timer = "fired"

(* C19: a call whose send_all raises (an errno other than 11 and 10055)    *)
(* raises socket.error to its caller and leaves the engine as it was: no   *)
(* call record (no handle, no timer that could fire later), no table       *)
(* entry, nothing on the wire; and socket.error is raised by nothing else. *)
C19_FatalSendLeavesNothing ==
    [][/\ (/\ last'.op = "call" /\ Len(last'.sends) = 1
           /\ last'.sends[1].r.raised)
          => /\ last'.raised = "socket.error"
             /\ last'.writes = <<>>
             /\ Len(calls') = Len(calls)
             /\ \A e \in Engines : DOMAIN outstanding'[e] = DOMAIN outstanding[e]
             /\ EngineUnchanged
       /\ last'.raised = "socket.error"
          => /\ last'.op = "call" /\ Len(last'.sends) = 1
             /\ last'.sends[1].errnos # <<>>
             /\ last'.sends[1].errnos[last'.sends[1].r.tries] \notin {0, 11, 10055}
      ]_vars

(* the first call of the engine has met errno 90 on its first write *)
C19_Witness ==
    /\ last.op = "call" /\ last.raised = "socket.error"
    /\ last.sends = <<[errnos |-> <<EMSGSIZE>>,
                       r |-> [sent |-> FALSE, raised |-> TRUE, tries |-> 1]]>>
    /\ calls = <<>> /\ outstanding["A"] = NoTable /\ net = {}

(* C20: what a response frame with the ID of an outstanding call does is   *)
(* fixed by the state before it and by its bytes, whoever sent it: the     *)
(* call the table holds under the ID resolves to (True, decoded payload),  *)
(* its timer is cancelled, the entry leaves the table, the other calls,    *)
(* the wire and the pending handlers stay as they were, nothing is written *)
(* or raised. Two runs that differ in the sender only so end in the same   *)
(* state.                                                                  *)
C20_SenderIrrelevant ==
    [][\A a \in Addresses :
        (/\ Received(last') /\ last'.from = a
         /\ TagOf(last'.data) = RESPONSE_BYTE /\ Decoded(last'.data).ok
         /\ IdOf(last'.data) \in DOMAIN outstanding[last'.eng])
        => LET m == IdOf(last'.data)
               t == outstanding[last'.eng][m]
           IN  /\ calls'[t].d = <<[ok |-> TRUE, data |-> Decoded(last'.data).val]>>
               /\ calls'[t].timer = "cancelled"
               /\ calls'[t].nResp = 1 /\ calls'[t].nTimeout = 0
               /\ \A c \in Issued \ {t} : calls'[c] = calls[c]
               /\ Len(calls') = Len(calls)
               /\ outstanding' = [outstanding EXCEPT ![last'.eng] = Del(@, m)]
               /\ UNCHANGED <<net, pending>>
               /\ Silent(last')
      ]_vars

(* a call sent to B holds (True, ["x"]) from a response the stranger sent  *)
C20_Witness ==
    /\ Received(last) /\ last.from = Stranger /\ TagOf(last.data) = RESPONSE_BYTE
    /\ \E c \in Issued :
        /\ calls[c].dst = "B" /\ calls[c].by = Stranger
        /\ calls[c].id = IdOf(last.data)
        /\ calls[c].d = <<[ok |-> TRUE, data |-> ListV(<<StrV(x)>>)]>>

====
